---- MODULE Spec2Model ----
(***************************************************************************)
(* Model of the SM agent's Meta Marketing API client                       *)
(* (src/agent/app/meta_client.py): the paginated fetches, the insights     *)
(* normalisation and the hierarchy assembler with its fallback path.       *)
(*                                                                         *)
(* JSON values are records tagged by their Python type in field t:         *)
(*   a dict is [t |-> "dict", <key> |-> <value>, ...] (its keys are the    *)
(*   record's fields besides t), a list is [t |-> "list", v |-> <<...>>],  *)
(*   None is [t |-> "null"].                                               *)
(* A URL is the sequence of the pieces "?" splits it into.                 *)
(***************************************************************************)
EXTENDS Integers, Sequences, FiniteSets, TLC

VARIABLES fn, limit, pc, campaigns, ci, si, ret, http

\* The agent process (src/agent/app/main.py): its startup, its periodic
\* tasks, the backoff of the two pull loops, the process-wide credentials.
VARIABLES process, task, backoff, last_resp, fails,
          current_agent_id, current_agent_token, fed, slept

\* AGENT_ID of main.py, and for each task its iteration under way: the
\* number of requests it has sent to the CRM, the agent id they were
\* addressed to, and the sleep that ends it.
VARIABLES AGENT_ID, iteration

\* The inbound surface (the FastAPI handlers of main.py): the request a
\* handler is serving.  Its upstream calls are logged in http and the
\* envelope it returns is ret.
VARIABLES request

clientVars == <<fn, limit, pc, campaigns, ci, si, ret, http>>

mainVars == <<process, task, backoff, last_resp, fails,
              current_agent_id, current_agent_token, fed, slept,
              AGENT_ID, iteration>>

handlerVars == <<request>>

vars == <<fn, limit, pc, campaigns, ci, si, ret, http,
          process, task, backoff, last_resp, fails,
          current_agent_id, current_agent_token, fed, slept,
          AGENT_ID, iteration, request>>

\* Bounds of the model.
MaxPages == 3
MaxRecords == 4
MaxLimit == 2
MaxList == 2
MaxFails == 7
MaxPulls == 4

Tasks == {"heartbeat", "config", "commands", "sync"}

PullLoops == {"config", "commands"}

\* An iteration in which nothing has happened yet.
NoPost == [posts |-> 0, id |-> "", sleep |-> 0]

\* The agent process not running: the state of main.py while the client
\* alone is exercised.
MainIdle ==
    /\ process = "off"
    /\ task = [t \in Tasks |-> "idle"]
    /\ backoff = [l \in PullLoops |-> 0]
    /\ last_resp = [t \in Tasks |-> "none"]
    /\ fails = 0
    /\ current_agent_id = ""
    /\ current_agent_token = ""
    /\ fed = <<>>
    /\ slept = [l \in PullLoops |-> <<>>]
    /\ AGENT_ID = ""
    /\ iteration = [t \in Tasks |-> NoPost]

\* No inbound request being served.
NoRequest == [handler |-> "none"]

HandlersIdle == request = NoRequest

-----------------------------------------------------------------------------
(* Python's dict, list and truth-value operations on JSON values.          *)

JList(s) == [t |-> "list", v |-> s]
JNull == [t |-> "null"]
EmptyDict == [t |-> "dict"]

IsDict(x) == x.t = "dict"
IsList(x) == x.t = "list"

\* k in d
HasKey(d, k) == k \in DOMAIN d

\* d[k] = val
Put(d, k, val) == [q \in DOMAIN d \cup {k} |-> IF q = k THEN val ELSE d[q]]

\* del d[k]
Del(d, k) == [q \in DOMAIN d \ {k} |-> d[q]]

\* bool(x)
Truthy(x) ==
    CASE x.t = "list" -> Len(x.v) > 0
      [] x.t = "dict" -> DOMAIN x # {"t"}
      [] OTHER        -> FALSE

\* x[0] raises for a dict with string keys (KeyError) and for a number or None
\* (TypeError).
Index0Raises(x) == ~IsList(x)

RECURSIVE Concat(_)
Concat(ss) == IF ss = <<>> THEN <<>> ELSE Head(ss) \o Concat(Tail(ss))

Take(s, k) == SubSeq(s, 1, IF k < Len(s) THEN k ELSE Len(s))

Ids(nodes) == [i \in 1..Len(nodes) |-> nodes[i].id]

-----------------------------------------------------------------------------
(* Insights normalisation: the block the client repeats for an ad set of   *)
(* get_ad_sets (first page and later pages) and for a campaign, an ad set  *)
(* and an ad of get_campaigns_detailed.                                    *)

InsightsList(node) ==
    LET insights_data == node.insights IN
    IF IsDict(insights_data) /\ HasKey(insights_data, "data")
    THEN insights_data.data
    ELSE IF IsList(insights_data) THEN insights_data ELSE JList(<<>>)

\* insights_list[0] if insights_list else {}  raises when the candidate is
\* truthy and not indexable by 0.
NormalizeRaises(node) ==
    /\ HasKey(node, "insights")
    /\ Truthy(InsightsList(node))
    /\ Index0Raises(InsightsList(node))

NormalizeInsightsDropRest(node) ==
    IF HasKey(node, "insights")
    THEN LET insights_list == InsightsList(node) IN
         Del(Put(node, "performance_metrics",
                 IF Truthy(insights_list)
                 THEN insights_list.v[Len(insights_list.v)] ELSE EmptyDict),
             "insights")
    ELSE Put(node, "performance_metrics", EmptyDict)

NormalizeInsights(node) ==
    IF HasKey(node, "insights")
    THEN LET insights_list == InsightsList(node) IN
         Del(Put(node, "performance_metrics",
                 IF Truthy(insights_list) THEN insights_list.v[1] ELSE EmptyDict),
             "insights")
    ELSE Put(node, "performance_metrics", EmptyDict)

AnyRaises(nodes) == \E i \in 1..Len(nodes) : NormalizeRaises(nodes[i])

NormalizeAll(nodes) == [i \in 1..Len(nodes) |-> NormalizeInsights(nodes[i])]

(* The normalisation of the nested tree of get_campaigns_detailed.         *)

\* for x in value: only a list, or an empty dict, is walked without raising
\* (a key of a dict is a string, which takes no item assignment).
IterRaises(x) == ~IsList(x) /\ ~(IsDict(x) /\ ~Truthy(x))

Items(x) == IF IsList(x) THEN x.v ELSE <<>>

\* The re-keying of a nested field: the value stored under the stable key.
Rekey(node, key) ==
    IF HasKey(node, key)
    THEN IF IsDict(node[key]) /\ HasKey(node[key], "data") THEN node[key].data
         ELSE IF IsList(node[key]) THEN node[key]
         ELSE JList(<<>>)
    ELSE JList(<<>>)

AdSetRaises(ad_set) ==
    \/ NormalizeRaises(ad_set)
    \/ IterRaises(Rekey(ad_set, "ads"))
    \/ AnyRaises(Items(Rekey(ad_set, "ads")))

NormalizeAdSet(ad_set) ==
    LET ads == Rekey(ad_set, "ads") IN
    Put(NormalizeInsights(ad_set), "ads",
        IF IsList(ads) THEN JList(NormalizeAll(ads.v)) ELSE ads)

CampaignRaises(campaign) ==
    \/ NormalizeRaises(campaign)
    \/ IterRaises(Rekey(campaign, "adsets"))
    \/ \E i \in 1..Len(Items(Rekey(campaign, "adsets"))) :
          AdSetRaises(Items(Rekey(campaign, "adsets"))[i])

NormalizeCampaign(campaign) ==
    LET ad_sets == Rekey(campaign, "adsets") IN
    Put(Del(NormalizeInsights(campaign), "adsets"), "ad_sets",
        IF IsList(ad_sets)
        THEN JList([i \in 1..Len(ad_sets.v) |-> NormalizeAdSet(ad_sets.v[i])])
        ELSE ad_sets)

-----------------------------------------------------------------------------
(* What the platform answers.  A listing is served as a chain of           *)
(* responses: pages, each but the last carrying paging.next, or an error   *)
(* (transport failure, non-success status, unparseable body) that ends it. *)

MetricsX == [t |-> "dict", spend |-> 10]
MetricsY == [t |-> "dict", spend |-> 20]

\* The insights field of a served record, by shape.
Insights(shape) ==
    CASE shape = "envelope" -> [t |-> "dict", data |-> JList(<<MetricsX, MetricsY>>)]
      [] shape = "mapping"  -> [t |-> "dict", data |-> MetricsX]

Record(id, shape) ==
    IF shape = "absent" THEN [t |-> "dict", id |-> id]
    ELSE [t |-> "dict", id |-> id, insights |-> Insights(shape)]

\* The k records of page p of the listing of parent: ids parent \o <<p, j>>.
Records(parent, p, k, shape) == [j \in 1..k |-> Record(parent \o <<p, j>>, shape)]

Url(kind) == IF kind = "query" THEN <<"https://graph/edge", "after=cursor">>
             ELSE <<"https://graph/edge">>

Page(records, paging) ==
    CASE paging = "absent" -> [t |-> "dict", data |-> JList(records)]
      [] paging = "nonext" -> [t |-> "dict", data |-> JList(records), paging |-> EmptyDict]
      [] OTHER -> [t |-> "dict", data |-> JList(records),
                   paging |-> [t |-> "dict", next |-> Url(paging)]]

Error == [t |-> "error"]

IsError(resp) == resp.t = "error"

\* data.get("data", [])
PageData(page) == IF HasKey(page, "data") THEN page.data.v ELSE <<>>

\* "paging" in data and "next" in data["paging"]
HasNext(page) == HasKey(page, "paging") /\ HasKey(page.paging, "next")

\* "?" in next_url
HasQuery(url) == Len(url) > 1

Min(a, b) == IF a < b THEN a ELSE b

\* The chains of a flat listing from page p on, with at most b records left
\* and at most cap records a page; a page that carries a next link, of one of
\* kinds, holds at least lo records.
RECURSIVE Chains(_, _, _, _, _, _, _)
Chains(parent, p, b, cap, shape, kinds, lo) ==
    {<<Error>>}
    \cup { <<Page(Records(parent, p, k, shape), paging)>> :
              k \in 0..Min(b, cap), paging \in {"absent", "nonext"} }
    \cup IF p >= MaxPages THEN {}
         ELSE UNION { { <<Page(Records(parent, p, k, shape), kind)>> \o rest :
                          rest \in Chains(parent, p + 1, b - k, cap, shape, kinds, lo),
                          kind \in kinds } :
                      k \in lo..Min(b, cap) }

\* The chains served to a call made by the caller of the client.
FlatChains(parent, b, cap, shape) ==
    Chains(parent, 1, b, cap, shape, {"query", "noquery"}, 0)

\* The chains served to a fetch of the fallback path.
FallbackChains(parent, b, cap, shape) ==
    Chains(parent, 1, b, cap, shape, {"query"}, 1)

FlatShapes == {"absent", "envelope", "mapping"}

FallbackShapes == {"absent", "envelope"}

-----------------------------------------------------------------------------
(* The request log: one entry a request, with what the platform answered:  *)
(* the ids of the records served, the kind of next link, and whether the   *)
(* records normalise without raising (wf).                                 *)

NextKind(page) ==
    IF ~HasNext(page) THEN "none"
    ELSE IF HasQuery(page.paging.next) THEN "query" ELSE "noquery"

Entry(edge, parent, p, resp) ==
    IF IsError(resp)
    THEN [edge |-> edge, of |-> parent, page |-> p, ok |-> FALSE,
          ids |-> <<>>, next |-> "none", wf |-> TRUE]
    ELSE [edge |-> edge, of |-> parent, page |-> p, ok |-> TRUE,
          ids |-> Ids(PageData(resp)), next |-> NextKind(resp),
          wf |-> \A i \in 1..Len(PageData(resp)) : ~CampaignRaises(PageData(resp)[i])]

-----------------------------------------------------------------------------
(* get_ad_sets: first page, then every paging.next followed verbatim.      *)

\* A walk that never follows a next link.
AdSetsPagingOnce(parent, chain, p, ad_sets, log) ==
    [raised |-> FALSE, value |-> ad_sets, log |-> log]

RECURSIVE AdSetsPaging(_, _, _, _, _)
AdSetsPaging(parent, chain, p, ad_sets, log) ==
    IF HasNext(chain[p])
    THEN LET resp == chain[p + 1]
             log2 == Append(log, Entry("adsets", parent, p + 1, resp))
         IN  IF IsError(resp) \/ AnyRaises(PageData(resp))
             THEN [raised |-> FALSE, value |-> ad_sets, log |-> log2]
             ELSE AdSetsPaging(parent, chain, p + 1,
                               ad_sets \o NormalizeAll(PageData(resp)), log2)
    ELSE [raised |-> FALSE, value |-> ad_sets, log |-> log]

get_ad_sets(parent, chain) ==
    LET resp == chain[1]
        log == <<Entry("adsets", parent, 1, resp)>>
    IN  IF IsError(resp) \/ AnyRaises(PageData(resp))
        THEN [raised |-> TRUE, value |-> <<>>, log |-> log]
        ELSE AdSetsPaging(parent, chain, 1, NormalizeAll(PageData(resp)), log)

(* get_ad_comments: the walk stops at the caller's limit.                  *)

RECURSIVE CommentsPaging(_, _, _, _, _, _)
CommentsPaging(parent, chain, p, comments, lim, log) ==
    IF HasNext(chain[p]) /\ Len(comments) < lim
    THEN IF HasQuery(chain[p].paging.next)
         THEN LET resp == chain[p + 1]
                  log2 == Append(log, Entry("comments", parent, p + 1, resp))
              IN  IF IsError(resp)
                  THEN [raised |-> FALSE, value |-> comments, log |-> log2]
                  ELSE CommentsPaging(parent, chain, p + 1,
                                      comments \o PageData(resp), lim, log2)
         ELSE [raised |-> FALSE, value |-> comments, log |-> log]
    ELSE [raised |-> FALSE, value |-> comments, log |-> log]

get_ad_comments(parent, chain, lim) ==
    LET resp == chain[1]
        log == <<Entry("comments", parent, 1, resp)>>
    IN  IF IsError(resp)
        THEN [raised |-> FALSE, value |-> <<>>, log |-> log]
        ELSE LET r == CommentsPaging(parent, chain, 1, PageData(resp), lim, log)
             IN  [raised |-> FALSE, value |-> Take(r.value, lim), log |-> r.log]

-----------------------------------------------------------------------------
(* The nested response of get_campaigns_detailed: campaigns embedding      *)
(* their ad sets (field adsets) embedding their ads (field ads).  A        *)
(* nested field comes in one of these forms.                               *)

ItemForms == {"envelope", "list"}
ChildlessForms == {"absent", "envelope", "list", "other", "null_data", "map_data"}

Container(form, items) ==
    CASE form = "envelope"  -> [t |-> "dict", data |-> JList(items)]
      [] form = "list"      -> JList(items)
      [] form = "other"     -> [t |-> "dict", paging |-> EmptyDict]
      [] form = "null_data" -> [t |-> "dict", data |-> JNull]
      [] form = "map_data"  -> [t |-> "dict", data |-> EmptyDict]

WithContainer(node, key, form, items) ==
    IF form = "absent" THEN node ELSE Put(node, key, Container(form, items))

FormsFor(k) == IF k = 0 THEN ChildlessForms ELSE ItemForms

(* A nested campaign is described by <<form of adsets, its ad sets>> and a  *)
(* nested ad set by <<form of ads, number of ads>>.                         *)

\* The ad sets of exactly k nodes (itself and k - 1 ads).
AdSetShapes(k) == { <<form, k - 1>> : form \in FormsFor(k - 1) }

\* The sequences of ad sets of exactly m nodes in all.
RECURSIVE AdSetSeqs(_)
AdSetSeqs(m) ==
    IF m = 0 THEN {<<>>}
    ELSE UNION { { <<d>> \o rest : d \in AdSetShapes(k), rest \in AdSetSeqs(m - k) } :
                 k \in 1..m }

\* The campaigns of exactly k nodes.
CampaignShapes(k) ==
    UNION { { <<form, ad_sets>> : form \in FormsFor(Len(ad_sets)) } :
            ad_sets \in AdSetSeqs(k - 1) }

\* The sequences of at most cap campaigns of exactly m nodes in all.
RECURSIVE CampaignSeqs(_, _)
CampaignSeqs(m, cap) ==
    IF m = 0 THEN {<<>>}
    ELSE IF cap = 0 THEN {}
    ELSE UNION { { <<d>> \o rest : d \in CampaignShapes(k),
                                   rest \in CampaignSeqs(m - k, cap - 1) } :
                 k \in 1..m }

NestedAdSet(id, d, shape) ==
    WithContainer(Record(id, shape), "ads", d[1],
                  [i \in 1..d[2] |-> Record(id \o <<i>>, shape)])

NestedCampaign(id, d, shape) ==
    WithContainer(Record(id, shape), "adsets", d[1],
                  [j \in 1..Len(d[2]) |-> NestedAdSet(id \o <<j>>, d[2][j], shape)])

\* The campaigns of page p described by ds.
NestedRecords(p, ds, shape) ==
    [j \in 1..Len(ds) |-> NestedCampaign(<<p, j>>, ds[j], shape)]

\* The pages of at most cap campaigns and at most b nodes.
CampaignPages(b, cap) == UNION { CampaignSeqs(m, cap) : m \in 0..b }

NestedShapes == {"absent", "envelope"}

-----------------------------------------------------------------------------
(* get_campaigns_detailed, primary path: the nested request, the walk of   *)
(* the campaign pages, then the normalisation of the tree.                 *)

\* A walk that loses what it accumulated when a later page fails: it follows
\* one link, and a failure there empties the result.
CampaignsPagingLose(chain, p, acc, log) ==
    IF HasNext(chain[p]) /\ HasQuery(chain[p].paging.next)
    THEN LET resp == chain[p + 1]
             log2 == Append(log, Entry("nested", <<>>, p + 1, resp))
         IN  IF IsError(resp)
             THEN [value |-> <<>>, log |-> log2]
             ELSE [value |-> acc \o PageData(resp), log |-> log2]
    ELSE [value |-> acc, log |-> log]

RECURSIVE CampaignsPaging(_, _, _, _)
CampaignsPaging(chain, p, acc, log) ==
    IF HasNext(chain[p])
    THEN IF HasQuery(chain[p].paging.next)
         THEN LET resp == chain[p + 1]
                  log2 == Append(log, Entry("nested", <<>>, p + 1, resp))
              IN  IF IsError(resp)
                  THEN [value |-> acc, log |-> log2]
                  ELSE CampaignsPaging(chain, p + 1, acc \o PageData(resp), log2)
         ELSE [value |-> acc, log |-> log]
    ELSE [value |-> acc, log |-> log]

\* A try block that a failed later page, too, sends to the fallback.
TryNestedStrict(chain) ==
    LET resp == chain[1]
        log == <<Entry("nested", <<>>, 1, resp)>>
    IN  IF IsError(resp)
        THEN [raised |-> TRUE, value |-> <<>>, log |-> log]
        ELSE LET w == CampaignsPaging(chain, 1, PageData(resp), log) IN
             IF \/ \E i \in 1..Len(w.value) : CampaignRaises(w.value[i])
                \/ \E i \in 1..Len(w.log) : ~w.log[i].ok
             THEN [raised |-> TRUE, value |-> <<>>, log |-> w.log]
             ELSE [raised |-> FALSE,
                   value |-> [i \in 1..Len(w.value) |-> NormalizeCampaign(w.value[i])],
                   log |-> w.log]

\* The try block: raised means the except block (the fallback) runs.
TryNested(chain) ==
    LET resp == chain[1]
        log == <<Entry("nested", <<>>, 1, resp)>>
    IN  IF IsError(resp)
        THEN [raised |-> TRUE, value |-> <<>>, log |-> log]
        ELSE LET w == CampaignsPaging(chain, 1, PageData(resp), log) IN
             IF \E i \in 1..Len(w.value) : CampaignRaises(w.value[i])
             THEN [raised |-> TRUE, value |-> <<>>, log |-> w.log]
             ELSE [raised |-> FALSE,
                   value |-> [i \in 1..Len(w.value) |-> NormalizeCampaign(w.value[i])],
                   log |-> w.log]

(* The flat fetches of the fallback path: one request each.                *)

get_campaigns(chain) ==
    LET resp == chain[1]
        log == <<Entry("campaigns", <<>>, 1, resp)>>
    IN  IF IsError(resp)
        THEN [raised |-> TRUE, value |-> <<>>, log |-> log]
        ELSE [raised |-> FALSE, value |-> PageData(resp), log |-> log]

get_ads(parent, chain) ==
    LET resp == chain[1]
        log == <<Entry("ads", parent, 1, resp)>>
    IN  IF IsError(resp)
        THEN [raised |-> TRUE, value |-> <<>>, log |-> log]
        ELSE [raised |-> FALSE, value |-> PageData(resp), log |-> log]

RECURSIVE Sum(_)
Sum(s) == IF s = <<>> THEN 0 ELSE Head(s) + Sum(Tail(s))

\* The records the platform has served so far, and how many it may still
\* serve within the bound.
Served(log) == Sum([i \in 1..Len(log) |-> Len(log[i].ids)])

Left(log) == MaxRecords - Served(log)

-----------------------------------------------------------------------------
FallbackLimit == 50

Init ==
    /\ fn \in {"get_ad_sets", "get_ad_comments", "get_campaigns_detailed"}
    /\ limit \in 1..MaxLimit
    /\ pc = "call"
    /\ campaigns = <<>>
    /\ ci = 0
    /\ si = 0
    /\ ret = <<>>
    /\ http = <<>>
    /\ MainIdle
    /\ HandlersIdle

CallGetAdSets ==
    /\ fn = "get_ad_sets"
    /\ pc = "call"
    /\ \E shape \in FlatShapes :
         \E chain \in FlatChains(<<1>>, MaxRecords, limit, shape) :
            LET r == get_ad_sets(<<1>>, chain) IN
            /\ pc' = IF r.raised THEN "raised" ELSE "returned"
            /\ ret' = r.value
            /\ http' = r.log
    /\ UNCHANGED <<fn, limit, campaigns, ci, si>>
    /\ UNCHANGED mainVars
    /\ UNCHANGED handlerVars

CallGetAdComments ==
    /\ fn = "get_ad_comments"
    /\ pc = "call"
    /\ \E chain \in FlatChains(<<1>>, MaxRecords, limit, "absent") :
          LET r == get_ad_comments(<<1>>, chain, limit) IN
          /\ pc' = "returned"
          /\ ret' = r.value
          /\ http' = r.log
    /\ UNCHANGED <<fn, limit, campaigns, ci, si>>
    /\ UNCHANGED mainVars
    /\ UNCHANGED handlerVars

\* get_campaigns_detailed, the try block, the platform serving chain.
TryBlock(chain) ==
    LET r == TryNested(chain) IN
    /\ pc' = IF r.raised THEN "fallback" ELSE "returned"
    /\ ret' = r.value
    /\ http' = r.log
    /\ UNCHANGED <<fn, limit, campaigns, ci, si>>
    /\ UNCHANGED mainVars
    /\ UNCHANGED handlerVars

\* The platform serves campaigns without nested fields, over up to MaxPages
\* pages; or one page of nested campaigns; or a page of one plain campaign
\* followed by a page of nested campaigns.
Primary ==
    /\ fn = "get_campaigns_detailed"
    /\ pc = "call"
    /\ \E shape \in NestedShapes :
         \/ \E chain \in FlatChains(<<>>, MaxRecords, limit, shape) : TryBlock(chain)
         \/ \E ds \in CampaignPages(MaxRecords, limit) :
               TryBlock(<<Page(NestedRecords(1, ds, shape), "absent")>>)
         \/ \E ds \in CampaignPages(MaxRecords - 1, limit) :
               TryBlock(<<Page(Records(<<>>, 1, 1, shape), "query"),
                          Page(NestedRecords(2, ds, shape), "nonext")>>)

\* The control point after campaign c (and all its ad sets) is done.
AfterCampaign(tree, c) ==
    IF c < Len(tree)
    THEN /\ pc' = "adsets" /\ ci' = c + 1 /\ si' = 0 /\ ret' = ret
    ELSE /\ pc' = "returned" /\ ci' = 0 /\ si' = 0 /\ ret' = tree

\* campaigns = self.get_campaigns(limit): it raises out of the except block.
FallbackCampaigns ==
    /\ pc = "fallback"
    /\ \E chain \in FallbackChains(<<>>, Left(http), limit, "absent") :
          LET r == get_campaigns(chain) IN
          /\ http' = http \o r.log
          /\ IF r.raised
             THEN /\ pc' = "raised"
                  /\ UNCHANGED <<campaigns, ci, si, ret>>
             ELSE /\ campaigns' = r.value
                  /\ AfterCampaign(r.value, 0)
    /\ UNCHANGED <<fn, limit>>
    /\ UNCHANGED mainVars
    /\ UNCHANGED handlerVars

\* A fallback that a failed ad-set fetch aborts.
FallbackAdSetsAbort ==
    /\ pc = "adsets"
    /\ \E shape \in FallbackShapes :
         \E chain \in FallbackChains(campaigns[ci].id, Left(http),
                                 FallbackLimit, shape) :
            LET r == get_ad_sets(campaigns[ci].id, chain)
                tree == [campaigns EXCEPT ![ci] = Put(@, "ad_sets", JList(r.value))]
            IN
            /\ http' = http \o r.log
            /\ IF r.raised
               THEN /\ pc' = "raised" /\ UNCHANGED <<campaigns, ci, si, ret>>
               ELSE /\ campaigns' = tree
                    /\ IF r.value = <<>>
                       THEN AfterCampaign(tree, ci)
                       ELSE /\ pc' = "ads" /\ si' = 1 /\ UNCHANGED <<ci, ret>>
    /\ UNCHANGED <<fn, limit>>
    /\ UNCHANGED mainVars
    /\ UNCHANGED handlerVars

\* ad_sets = self.get_ad_sets(campaign["id"], limit=50), for campaign ci.
FallbackAdSets ==
    /\ pc = "adsets"
    /\ \E shape \in FallbackShapes :
         \E chain \in FallbackChains(campaigns[ci].id, Left(http),
                                 FallbackLimit, shape) :
            LET r == get_ad_sets(campaigns[ci].id, chain)
                tree == [campaigns EXCEPT ![ci] = Put(@, "ad_sets", JList(r.value))]
            IN
            /\ http' = http \o r.log
            /\ campaigns' = tree
            /\ IF r.value = <<>>
               THEN AfterCampaign(tree, ci)
               ELSE /\ pc' = "ads" /\ si' = 1 /\ UNCHANGED <<ci, ret>>
    /\ UNCHANGED <<fn, limit>>
    /\ UNCHANGED mainVars
    /\ UNCHANGED handlerVars

\* A fallback where a failed ad fetch reaches the campaign's handler: the
\* campaign loses its ad sets and the loop moves to the next campaign.
FallbackAdsAbort ==
    /\ pc = "ads"
    /\ LET ad_sets == campaigns[ci].ad_sets.v IN
       \E chain \in FallbackChains(ad_sets[si].id, Left(http),
                               FallbackLimit, "absent") :
          LET r == get_ads(ad_sets[si].id, chain)
              tree == [campaigns EXCEPT ![ci] =
                         Put(@, "ad_sets",
                             IF r.raised THEN JList(<<>>)
                             ELSE JList([ad_sets EXCEPT ![si] =
                                           Put(@, "ads", JList(r.value))]))]
          IN
          /\ http' = http \o r.log
          /\ campaigns' = tree
          /\ IF si < Len(ad_sets) /\ ~r.raised
             THEN /\ si' = si + 1 /\ UNCHANGED <<pc, ci, ret>>
             ELSE AfterCampaign(tree, ci)
    /\ UNCHANGED <<fn, limit>>
    /\ UNCHANGED mainVars
    /\ UNCHANGED handlerVars

\* ads = self.get_ads(ad_set["id"], limit=50), for ad set si of campaign ci.
FallbackAds ==
    /\ pc = "ads"
    /\ LET ad_sets == campaigns[ci].ad_sets.v IN
       \E chain \in FallbackChains(ad_sets[si].id, Left(http),
                               FallbackLimit, "absent") :
          LET r == get_ads(ad_sets[si].id, chain)
              tree == [campaigns EXCEPT ![ci] =
                         Put(@, "ad_sets",
                             JList([ad_sets EXCEPT ![si] = Put(@, "ads", JList(r.value))]))]
          IN
          /\ http' = http \o r.log
          /\ campaigns' = tree
          /\ IF si < Len(ad_sets)
             THEN /\ si' = si + 1 /\ UNCHANGED <<pc, ci, ret>>
             ELSE AfterCampaign(tree, ci)
    /\ UNCHANGED <<fn, limit>>
    /\ UNCHANGED mainVars
    /\ UNCHANGED handlerVars

Next ==
    \/ CallGetAdSets
    \/ CallGetAdComments
    \/ Primary
    \/ FallbackCampaigns
    \/ FallbackAdSets
    \/ FallbackAds

Spec == Init /\ [][Next]_vars

-----------------------------------------------------------------------------
(* The normalisation blocks on their own, over every form of insights: a   *)
(* campaign embedding one ad set embedding one ad, each with its own       *)
(* insights field.                                                         *)

MetricLists == UNION { [1..n -> {MetricsX, MetricsY}] : n \in 0..MaxList }

Absent == [t |-> "absent"]

\* The insights field of a node: absent, {"data": [...]}, [...], a mapping
\* without data, {"data": {...}}, or null.
InsightValues ==
    {Absent}
    \cup { [t |-> "dict", data |-> JList(l)] : l \in MetricLists }
    \cup { JList(l) : l \in MetricLists }
    \cup { [t |-> "dict", paging |-> EmptyDict],
           [t |-> "dict", data |-> MetricsX],
           JNull }

WithInsights(node, x) == IF x = Absent THEN node ELSE Put(node, "insights", x)

Node(id, x) == WithInsights([t |-> "dict", id |-> id], x)

\* The campaign as served: adsets in the {"data": [...]} form, ads as a list.
Tree(x, y, z) ==
    Put(Node(<<1>>, x), "adsets",
        [t |-> "dict",
         data |-> JList(<<Put(Node(<<1, 1>>, y), "ads",
                              JList(<<Node(<<1, 1, 1>>, z)>>))>>)])

InitNormalize ==
    /\ fn \in {"normalize_flat", "normalize_tree"}
    /\ limit = 1
    /\ pc = "call"
    /\ \E x, y, z \in InsightValues : campaigns = <<Tree(x, y, z)>>
    /\ ci = 0
    /\ si = 0
    /\ ret = <<>>
    /\ http = <<>>
    /\ MainIdle
    /\ HandlersIdle

\* The block of get_ad_sets: the insights of each record of the page.
NormalizeFlat ==
    /\ fn = "normalize_flat"
    /\ pc = "call"
    /\ IF AnyRaises(campaigns)
       THEN pc' = "raised" /\ ret' = ret
       ELSE pc' = "returned" /\ ret' = NormalizeAll(campaigns)
    /\ UNCHANGED <<fn, limit, campaigns, ci, si, http>>
    /\ UNCHANGED mainVars
    /\ UNCHANGED handlerVars

\* The block of get_campaigns_detailed: each campaign, its ad sets, their ads.
NormalizeTree ==
    /\ fn = "normalize_tree"
    /\ pc = "call"
    /\ IF \E i \in 1..Len(campaigns) : CampaignRaises(campaigns[i])
       THEN pc' = "raised" /\ ret' = ret
       ELSE /\ pc' = "returned"
            /\ ret' = [i \in 1..Len(campaigns) |-> NormalizeCampaign(campaigns[i])]
    /\ UNCHANGED <<fn, limit, campaigns, ci, si, http>>
    /\ UNCHANGED mainVars
    /\ UNCHANGED handlerVars

\* The same block run once more, on the nodes it has just normalised.
NormalizeAgain ==
    /\ fn \in {"normalize_flat", "normalize_tree"}
    /\ pc = "returned"
    /\ pc' = "twice"
    /\ campaigns' = ret
    /\ ret' = IF fn = "normalize_flat" THEN NormalizeAll(ret)
              ELSE [i \in 1..Len(ret) |-> NormalizeCampaign(ret[i])]
    /\ UNCHANGED <<fn, limit, ci, si, http>>
    /\ UNCHANGED mainVars
    /\ UNCHANGED handlerVars

NextNormalize == NormalizeFlat \/ NormalizeTree \/ NormalizeAgain

SpecNormalize == InitNormalize /\ [][NextNormalize]_vars

-----------------------------------------------------------------------------
(* The agent process (src/agent/app/main.py).  A step is what one task     *)
(* runs between two awaits: the other tasks run only between steps.        *)

InitialBackoff == 5

\* What the CRM answers to a pull: a success response with a JSON body, a
\* success response whose body is not JSON, a non-success response, or the
\* post raising (transport failure, timeout).
Outcomes == {"success", "success_bad_body", "non_success", "exception"}

\* A backoff that grows by steps of 5.
PullConfigBackoffLinear(b, outcome) ==
    IF outcome \in {"success", "success_bad_body"}
    THEN 5
    ELSE Min(b + 5, 300)

\* A backoff that a success halves.
PullConfigBackoffHalves(b, outcome) ==
    IF outcome \in {"success", "success_bad_body"}
    THEN IF b \div 2 < 5 THEN 5 ELSE b \div 2
    ELSE Min(b * 2, 300)

\* A backoff without its cap.
PullCommandsBackoffUncapped(b, outcome) ==
    IF outcome = "success"
    THEN 5
    ELSE b * 2

\* A backoff that a success leaves as it is.
PullCommandsBackoffNoReset(b, outcome) ==
    IF outcome = "success"
    THEN b
    ELSE Min(b * 2, 300)

\* pull_config_loop: the try block, from the backoff before to the one slept.
pull_config_backoff(b, outcome) ==
    IF outcome \in {"success", "success_bad_body"}
    THEN 5
    ELSE Min(b * 2, 300)

\* pull_commands_loop: the same, with resp.json() read on success, which
\* raises into the except branch when the body is not JSON.
pull_commands_backoff(b, outcome) ==
    IF outcome = "success"
    THEN 5
    ELSE Min(b * 2, 300)

\* The configuration files load_config may find: complete ones, one without
\* the token key, one without the id key, one with an empty token, and one
\* without the agent section.
Configs ==
    { [agent |-> [id |-> "agt_A", token |-> "tok_A"]],
      [agent |-> [id |-> "agt_B", token |-> "tok_B"]],
      [agent |-> [id |-> "agt_B"]],
      [agent |-> [token |-> "tok_B"]],
      [agent |-> [id |-> "agt_B", token |-> ""]],
      [crm |-> [base_url |-> "http://crm"]] }

\* reload_config with load_config returning c: the globals it leaves and the
\* value it returns.  A missing key raises at its assignment, after the
\* assignments before it.
reload_config(c, id, token) ==
    IF ~("agent" \in DOMAIN c) \/ ~("id" \in DOMAIN c.agent)
    THEN [ok |-> FALSE, id |-> id, token |-> token]
    ELSE IF ~("token" \in DOMAIN c.agent)
    THEN [ok |-> FALSE, id |-> c.agent.id, token |-> token]
    ELSE [ok |-> c.agent.id # "" /\ c.agent.token # "",
          id |-> c.agent.id, token |-> c.agent.token]

\* config.get("agent", {}).get(key) or <the environment's value>
ModuleLevel(c, key, env) ==
    IF "agent" \in DOMAIN c /\ key \in DOMAIN c.agent /\ c.agent[key] # ""
    THEN c.agent[key] ELSE env

\* The module is imported: the configuration is loaded once and the globals
\* set from it.
InitAgent ==
    /\ fn = "agent" /\ limit = 1 /\ pc = "idle" /\ campaigns = <<>>
    /\ ci = 0 /\ si = 0 /\ ret = <<>> /\ http = <<>>
    /\ process = "loaded"
    /\ task = [t \in Tasks |-> "idle"]
    /\ backoff = [l \in PullLoops |-> 0]
    /\ last_resp = [t \in Tasks |-> "none"]
    /\ fails = 0
    /\ \E c \in Configs :
          /\ AGENT_ID = ModuleLevel(c, "id", "agt_dev")
          /\ current_agent_id = AGENT_ID
          /\ current_agent_token = ModuleLevel(c, "token", "tok_env")
    /\ iteration = [t \in Tasks |-> NoPost]
    /\ fed = <<>>
    /\ slept = [l \in PullLoops |-> <<>>]
    /\ HandlersIdle

\* What the CRM answers to a post whose body is not read: a success
\* response, a non-success response, or the post raising.
PostOutcomes == {"success", "non_success", "exception"}

\* What a post does where its response is not looked at: it returns one, or
\* it raises.
Posted == {"returned", "exception"}

HeartbeatInterval == 30

SyncInterval == 300

\* How far an iteration of sync_meta_data_loop gets before its post.
SyncFailures == {"connection_failed", "account_info_raised", "campaigns_raised"}

\* An iteration that has sent n times post(client, f"/api/agents/{id}/...")
\* and is about to sleep s seconds.
Iteration(n, id, s) == [posts |-> n, id |-> id, sleep |-> s]

\* A startup that creates the tasks whatever the reload returned.
StartupStartsAnyway ==
    /\ process = "loaded"
    /\ \E c \in Configs :
          LET r == reload_config(c, current_agent_id, current_agent_token) IN
          /\ current_agent_id' = r.id
          /\ current_agent_token' = r.token
          /\ process' = IF r.ok THEN "running" ELSE "exited"
          /\ task' = [t \in Tasks |-> "work"]
          /\ backoff' = [l \in PullLoops |-> InitialBackoff]
    /\ UNCHANGED <<last_resp, fails, fed, slept, AGENT_ID, iteration>>
    /\ UNCHANGED clientVars
    /\ UNCHANGED handlerVars

\* on_startup: the credentials are validated, then the four tasks created
\* (each pull loop sets its backoff before its first pull).
Startup ==
    /\ process = "loaded"
    /\ \E c \in Configs :
          LET r == reload_config(c, current_agent_id, current_agent_token) IN
          /\ current_agent_id' = r.id
          /\ current_agent_token' = r.token
          /\ IF r.ok
             THEN /\ process' = "running"
                  /\ task' = [t \in Tasks |-> "work"]
                  /\ backoff' = [l \in PullLoops |-> InitialBackoff]
             ELSE /\ process' = "exited"
                  /\ UNCHANGED <<task, backoff>>
    /\ UNCHANGED <<last_resp, fails, fed, slept, AGENT_ID, iteration>>
    /\ UNCHANGED clientVars
    /\ UNCHANGED handlerVars

\* Heartbeats that differ from heartbeat_loop in what a failed reload does
\* to the task and to the process, and in the sleep after a post that
\* raised.
HeartbeatVariant(failedTask, failedProcess, raisedSleep) ==
    /\ process = "running"
    /\ task["heartbeat"] = "work"
    /\ \E c \in Configs, outcome \in Posted :
          LET r == reload_config(c, current_agent_id, current_agent_token) IN
          /\ current_agent_id' = r.id
          /\ current_agent_token' = r.token
          /\ task' = [task EXCEPT !["heartbeat"] = IF r.ok THEN "sleep" ELSE failedTask]
          /\ process' = IF r.ok THEN "running" ELSE failedProcess
          /\ last_resp' = [last_resp EXCEPT !["heartbeat"] =
                             IF r.ok THEN outcome ELSE "reload_failed"]
          /\ iteration' = [iteration EXCEPT !["heartbeat"] =
                             IF r.ok
                             THEN Iteration(1, r.id, IF outcome = "exception"
                                                     THEN raisedSleep
                                                     ELSE HeartbeatInterval)
                             ELSE NoPost]
    /\ UNCHANGED <<backoff, fails, fed, slept, AGENT_ID>>
    /\ UNCHANGED clientVars
    /\ UNCHANGED handlerVars

\* A heartbeat that takes the whole process down when the reload fails.
HeartbeatExits == HeartbeatVariant("stopped", "exited", HeartbeatInterval)

\* A heartbeat that goes on to its sleep when the reload fails.
HeartbeatGoesOn == HeartbeatVariant("sleep", "running", HeartbeatInterval)

\* A heartbeat that doubles its sleep after a post that raised.
HeartbeatBacksOff == HeartbeatVariant("stopped", "running", 2 * HeartbeatInterval)

\* heartbeat_loop, one iteration up to its sleep: the reload, then either the
\* break or the post to current_agent_id (whose failure is caught) and the
\* sleep of 30 seconds.  last_resp["heartbeat"] tells which.
HeartbeatIteration ==
    /\ process = "running"
    /\ task["heartbeat"] = "work"
    /\ \E c \in Configs :
          LET r == reload_config(c, current_agent_id, current_agent_token) IN
          /\ current_agent_id' = r.id
          /\ current_agent_token' = r.token
          /\ IF r.ok
             THEN \E outcome \in Posted :
                     /\ task' = [task EXCEPT !["heartbeat"] = "sleep"]
                     /\ last_resp' = [last_resp EXCEPT !["heartbeat"] = outcome]
                     /\ iteration' = [iteration EXCEPT !["heartbeat"] =
                                        Iteration(1, r.id, HeartbeatInterval)]
             ELSE /\ task' = [task EXCEPT !["heartbeat"] = "stopped"]
                  /\ last_resp' = [last_resp EXCEPT !["heartbeat"] = "reload_failed"]
                  /\ iteration' = [iteration EXCEPT !["heartbeat"] = NoPost]
    /\ UNCHANGED <<process, backoff, fails, fed, slept, AGENT_ID>>
    /\ UNCHANGED clientVars
    /\ UNCHANGED handlerVars

\* A config pull that posts again at once when its post failed.
PullConfigRetries ==
    /\ process = "running"
    /\ task["config"] = "work"
    /\ \E outcome \in PostOutcomes :
          /\ backoff' = [backoff EXCEPT
                           !["config"] = pull_config_backoff(@, outcome)]
          /\ last_resp' = [last_resp EXCEPT !["config"] = outcome]
          /\ fails' = IF outcome \in {"non_success", "exception"}
                      THEN Min(fails + 1, MaxFails) ELSE 0
          /\ iteration' = [iteration EXCEPT !["config"] =
                             Iteration(IF outcome \in {"non_success", "exception"}
                                       THEN 2 ELSE 1,
                                       AGENT_ID,
                                       pull_config_backoff(backoff["config"], outcome))]
    /\ task' = [task EXCEPT !["config"] = "sleep"]
    /\ UNCHANGED <<process, current_agent_id, current_agent_token, fed, slept, AGENT_ID>>
    /\ UNCHANGED clientVars
    /\ UNCHANGED handlerVars

\* pull_config_loop, one iteration up to its sleep: one post to AGENT_ID,
\* the backoff, the sleep of backoff seconds.  fails counts the consecutive
\* pulls that raised or got a non-success response.
PullConfig ==
    /\ process = "running"
    /\ task["config"] = "work"
    /\ \E outcome \in PostOutcomes :
          /\ backoff' = [backoff EXCEPT
                           !["config"] = pull_config_backoff(@, outcome)]
          /\ last_resp' = [last_resp EXCEPT !["config"] = outcome]
          /\ fails' = IF outcome \in {"non_success", "exception"}
                      THEN Min(fails + 1, MaxFails) ELSE 0
          /\ iteration' = [iteration EXCEPT !["config"] =
                             Iteration(1, AGENT_ID,
                                       pull_config_backoff(backoff["config"], outcome))]
    /\ task' = [task EXCEPT !["config"] = "sleep"]
    /\ UNCHANGED <<process, current_agent_id, current_agent_token, fed, slept, AGENT_ID>>
    /\ UNCHANGED clientVars
    /\ UNCHANGED handlerVars

\* pull_commands_loop, one iteration up to its sleep.
PullCommands ==
    /\ process = "running"
    /\ task["commands"] = "work"
    /\ \E outcome \in Outcomes :
          /\ backoff' = [backoff EXCEPT
                           !["commands"] = pull_commands_backoff(@, outcome)]
          /\ last_resp' = [last_resp EXCEPT !["commands"] = outcome]
          /\ iteration' = [iteration EXCEPT !["commands"] =
                             Iteration(1, AGENT_ID,
                                       pull_commands_backoff(backoff["commands"], outcome))]
    /\ task' = [task EXCEPT !["commands"] = "sleep"]
    /\ UNCHANGED <<process, fails, current_agent_id, current_agent_token, fed, slept,
                   AGENT_ID>>
    /\ UNCHANGED clientVars
    /\ UNCHANGED handlerVars

\* A sync that posts whenever the connection test passed.
SyncPostsAnyway ==
    /\ process = "running"
    /\ task["sync"] = "work"
    /\ \E how \in SyncFailures \cup {"posted"} :
          /\ last_resp' = [last_resp EXCEPT !["sync"] = how]
          /\ IF how # "connection_failed"
             THEN iteration' = [iteration EXCEPT
                                  !["sync"] = Iteration(1, AGENT_ID, SyncInterval)]
             ELSE iteration' = [iteration EXCEPT
                                  !["sync"] = Iteration(0, "", SyncInterval)]
    /\ task' = [task EXCEPT !["sync"] = "sleep"]
    /\ UNCHANGED <<process, backoff, fails, current_agent_id, current_agent_token,
                   fed, slept, AGENT_ID>>
    /\ UNCHANGED clientVars
    /\ UNCHANGED handlerVars

\* sync_meta_data_loop, one iteration up to its sleep: test_connection, the
\* account info, the campaigns, then the post to AGENT_ID; an exception at
\* any of them is caught, and the sleep is 300 seconds.
\* last_resp["sync"] tells how far the iteration got.
SyncMetaData ==
    /\ process = "running"
    /\ task["sync"] = "work"
    /\ \E how \in SyncFailures \cup {"posted"} :
          /\ last_resp' = [last_resp EXCEPT !["sync"] = how]
          /\ IF how = "posted"
             THEN iteration' = [iteration EXCEPT
                                  !["sync"] = Iteration(1, AGENT_ID, SyncInterval)]
             ELSE iteration' = [iteration EXCEPT
                                  !["sync"] = Iteration(0, "", SyncInterval)]
    /\ task' = [task EXCEPT !["sync"] = "sleep"]
    /\ UNCHANGED <<process, backoff, fails, current_agent_id, current_agent_token,
                   fed, slept, AGENT_ID>>
    /\ UNCHANGED clientVars
    /\ UNCHANGED handlerVars

\* asyncio.sleep returns and the loop starts its next iteration, of which
\* nothing has happened yet.
Wake(t) ==
    /\ process = "running"
    /\ task[t] = "sleep"
    /\ task' = [task EXCEPT ![t] = "work"]
    /\ last_resp' = [last_resp EXCEPT ![t] = "none"]
    /\ iteration' = [iteration EXCEPT ![t] = NoPost]
    /\ UNCHANGED <<process, backoff, fails,
                   current_agent_id, current_agent_token, fed, slept, AGENT_ID>>
    /\ UNCHANGED clientVars
    /\ UNCHANGED handlerVars

NextAgent ==
    \/ Startup
    \/ HeartbeatIteration
    \/ PullConfig
    \/ PullCommands
    \/ SyncMetaData
    \/ \E t \in Tasks : Wake(t)

\* The event loop runs every task that is ready, and every sleep and every
\* request (each has a timeout) ends.
SpecAgent ==
    /\ InitAgent
    /\ [][NextAgent]_vars
    /\ WF_vars(Startup)
    /\ WF_vars(HeartbeatIteration)
    /\ WF_vars(PullConfig)
    /\ WF_vars(PullCommands)
    /\ WF_vars(SyncMetaData)
    /\ \A t \in Tasks : WF_vars(Wake(t))

-----------------------------------------------------------------------------
(* The two pull loops side by side, fed the same outcomes: fed is the      *)
(* sequence of outcomes, slept[l] the sequence of delays loop l slept.     *)

InitSameFeed ==
    /\ fn = "pull_loops" /\ limit = 1 /\ pc = "idle" /\ campaigns = <<>>
    /\ ci = 0 /\ si = 0 /\ ret = <<>> /\ http = <<>>
    /\ process = "running"
    /\ task = [t \in Tasks |-> IF t \in PullLoops THEN "work" ELSE "idle"]
    /\ backoff = [l \in PullLoops |-> InitialBackoff]
    /\ last_resp = [t \in Tasks |-> "none"]
    /\ fails = 0
    /\ current_agent_id = "agt_A"
    /\ current_agent_token = "tok_A"
    /\ AGENT_ID = "agt_A"
    /\ iteration = [t \in Tasks |-> NoPost]
    /\ fed = <<>>
    /\ slept = [l \in PullLoops |-> <<>>]
    /\ HandlersIdle

\* One iteration of each loop, the CRM answering both the same way.
PullBoth ==
    /\ fn = "pull_loops"
    /\ Len(fed) < MaxPulls
    /\ \E outcome \in Outcomes :
          LET b == [l \in PullLoops |->
                      IF l = "config"
                      THEN pull_config_backoff(backoff[l], outcome)
                      ELSE pull_commands_backoff(backoff[l], outcome)]
          IN  /\ backoff' = b
              /\ last_resp' = [t \in Tasks |-> IF t \in PullLoops THEN outcome ELSE "none"]
              /\ fed' = Append(fed, outcome)
              /\ slept' = [l \in PullLoops |-> Append(slept[l], b[l])]
    /\ UNCHANGED <<process, task, fails, current_agent_id, current_agent_token,
                   AGENT_ID, iteration>>
    /\ UNCHANGED clientVars
    /\ UNCHANGED handlerVars

NextSameFeed == PullBoth

SpecSameFeed == InitSameFeed /\ [][NextSameFeed]_vars

-----------------------------------------------------------------------------
(* The inbound surface: update_adset_status (main.py), with                *)
(* MetaAPIClient.test_connection and update_ad_set_status.  A step is what *)
(* the handler runs up to and including one upstream call.  A text built   *)
(* by an f-string is the sequence of its pieces.                           *)

AdSetIds == {"120", "121"}

\* status: str of AdSetStatusUpdate accepts any string, the empty one too.
Statuses == {"", "ACTIVE", "PAUSED", "ARCHIVED", "DELETED", "active"}

ValidStatuses == {"ACTIVE", "PAUSED", "ARCHIVED"}

\* The error objects of a platform error body: any of message, code and
\* error_subcode may be missing.
ErrorInfos ==
    { [k \in K |-> CASE k = "message" -> "Invalid parameter"
                     [] k = "code" -> "100"
                     [] k = "error_subcode" -> "33"] :
      K \in SUBSET {"message", "code", "error_subcode"} }

\* The body of a non-success response: not JSON, a JSON object without an
\* error member, one whose error member is not an object, or one with an
\* error object.
ErrorBodies ==
    {[t |-> "text"], [t |-> "json"], [t |-> "json_error_str"]}
      \cup {[t |-> "json_error", error |-> e] : e \in ErrorInfos}

\* What requests.post and the two lines after it give in
\* update_ad_set_status: the parsed body, or the exception raised.
UpdateResponses ==
    {[ok |-> TRUE], [ok |-> FALSE, exc |-> "JSONDecodeError"],
     [ok |-> FALSE, exc |-> "ConnectionError"]}
      \cup {[ok |-> FALSE, exc |-> "HTTPError", body |-> b] : b \in ErrorBodies}

\* str(e)
StrExc(e) == <<e.exc>>

\* dict.get(key, default) on an error object
Get(info, key, default) == IF key \in DOMAIN info THEN <<info[key]>> ELSE default

\* The except clause of update_adset_status.
update_adset_status_error(adset_id, e) ==
    LET plain == [error_message |-> StrExc(e), error_details |-> StrExc(e)]
        extracted ==
          IF e.exc # "HTTPError"
          THEN plain
          ELSE CASE e.body.t = "text" ->
                      [error_message |-> StrExc(e), error_details |-> <<"response.text">>]
                 [] e.body.t = "json" -> plain
                 [] e.body.t = "json_error_str" ->
                      [error_message |-> StrExc(e), error_details |-> <<"response.text">>]
                 [] e.body.t = "json_error" ->
                      LET info == e.body.error IN
                      [error_message |-> Get(info, "message", StrExc(e)),
                       error_details |->
                          <<"Meta API Error ">> \o Get(info, "code", <<>>)
                            \o <<": ">> \o Get(info, "message", <<>>)
                            \o (IF "error_subcode" \in DOMAIN info
                                THEN <<" (Subcode: ", info["error_subcode"], ")">>
                                ELSE <<>>)]
    IN [status |-> "error",
        message |-> <<"Failed to update ad set ", adset_id, " status: ">>
                      \o extracted.error_message,
        error_details |-> extracted.error_details]

\* What update_adset_status returns once the connection test has passed and
\* before its update call: an error envelope, or nothing yet.
update_adset_status_validate(status) ==
    IF status = ""
    THEN [status |-> "error", message |-> <<"Status is required">>]
    ELSE IF status \notin ValidStatuses
         THEN [status |-> "error",
               message |-> <<"Invalid status", ". Must be ACTIVE, PAUSED, or ARCHIVED">>]
         ELSE [status |-> "none"]

InitHandlers ==
    /\ fn = "handlers" /\ limit = 1 /\ pc = "idle" /\ campaigns = <<>>
    /\ ci = 0 /\ si = 0 /\ ret = <<>> /\ http = <<>>
    /\ MainIdle
    /\ HandlersIdle

\* PUT /meta/adsets/{adset_id}/status arrives and is parsed.
UpdateAdsetStatusRequest ==
    /\ fn = "handlers"
    /\ pc = "idle"
    /\ \E id \in AdSetIds, st \in Statuses :
          request' = [handler |-> "update_adset_status", adset_id |-> id, status |-> st]
    /\ pc' = "test_connection"
    /\ UNCHANGED <<fn, limit, campaigns, ci, si, ret, http>>
    /\ UNCHANGED mainVars

\* update_adset_status from its first line: test_connection, which fetches
\* the ad account and turns any exception into False, then the two checks
\* of the status.
UpdateAdsetStatusTestConnection ==
    /\ fn = "handlers"
    /\ request.handler = "update_adset_status"
    /\ pc = "test_connection"
    /\ \E connected \in BOOLEAN :
          /\ http' = Append(http, [call |-> "get_ad_account_info", ok |-> connected])
          /\ IF ~connected
             THEN /\ ret' = [status |-> "error",
                             message |-> <<"Meta API connection failed">>]
                  /\ pc' = "returned"
             ELSE LET v == update_adset_status_validate(request.status) IN
                  IF v.status = "error"
                  THEN /\ ret' = v
                       /\ pc' = "returned"
                  ELSE /\ ret' = ret
                       /\ pc' = "update_ad_set_status"
    /\ UNCHANGED <<fn, limit, campaigns, ci, si>>
    /\ UNCHANGED mainVars
    /\ UNCHANGED request

\* update_adset_status from its call of meta_client.update_ad_set_status
\* (one POST, whose exceptions are logged and raised again) to its return.
UpdateAdsetStatusPost ==
    /\ fn = "handlers"
    /\ request.handler = "update_adset_status"
    /\ pc = "update_ad_set_status"
    /\ \E resp \in UpdateResponses :
          /\ http' = Append(http, [call |-> "update_ad_set_status",
                                   ok |-> (resp.ok \/ resp.exc = "JSONDecodeError"),
                                   resp |-> resp])
          /\ ret' = IF resp.ok
                    THEN [status |-> "success",
                          message |-> <<"Ad set ", request.adset_id,
                                        " status updated to ", request.status>>,
                          adset_id |-> request.adset_id,
                          new_status |-> request.status,
                          data |-> "result"]
                    ELSE update_adset_status_error(request.adset_id, resp)
    /\ pc' = "returned"
    /\ UNCHANGED <<fn, limit, campaigns, ci, si>>
    /\ UNCHANGED mainVars
    /\ UNCHANGED request

-----------------------------------------------------------------------------
(* The other handlers of the inbound surface.  Each is its request, its    *)
(* connection test where it has one (with the checks of its input), and    *)
(* its call of the client, whose requests are one entry of the log.        *)

CampaignIds == {"c1"}

RuleIds == {"r1"}

\* An int of a request body; None is JNull.
JInt(n) == [t |-> "int", v |-> n]

\* daily_budget and lifetime_budget: Optional[int] = None
Budgets == {JNull, JInt(1000)}

\* status: str of RuleStatusUpdate
RuleStatuses == {"ENABLED", "DISABLED", "PAUSED"}

Handlers ==
    {"get_hierarchical_campaigns", "get_campaign_adsets", "get_adset_ads",
     "update_adset_status", "update_adset_budget", "create_meta_campaign",
     "create_automated_rule", "get_automated_rules", "delete_automated_rule",
     "update_automated_rule_status"}

\* The handlers that begin with `if not meta_client.test_connection()`.
TestsConnection ==
    {"get_campaign_adsets", "get_adset_ads", "update_adset_status",
     "update_adset_budget", "create_automated_rule", "get_automated_rules",
     "delete_automated_rule", "update_automated_rule_status"}

\* The client method a handler calls for its work.
ClientCall(handler) ==
    CASE handler = "get_hierarchical_campaigns" -> "get_campaigns_detailed"
      [] handler = "get_campaign_adsets" -> "get_ad_sets"
      [] handler = "get_adset_ads" -> "get_ads"
      [] handler = "update_adset_status" -> "update_ad_set_status"
      [] handler = "update_adset_budget" -> "update_ad_set_budget"
      [] handler = "create_meta_campaign" -> "create_campaign"
      [] handler = "create_automated_rule" -> "create_automated_rule"
      [] handler = "get_automated_rules" -> "get_automated_rules"
      [] handler = "delete_automated_rule" -> "delete_automated_rule"
      [] handler = "update_automated_rule_status" -> "update_automated_rule_status"

\* The requests of the handlers other than update_adset_status.
Requests ==
    {[handler |-> "get_hierarchical_campaigns"]}
      \cup {[handler |-> "get_campaign_adsets", campaign_id |-> c] : c \in CampaignIds}
      \cup {[handler |-> "get_adset_ads", adset_id |-> a] : a \in AdSetIds}
      \cup {[handler |-> "update_adset_budget", adset_id |-> a,
             daily_budget |-> d, lifetime_budget |-> l] :
              a \in AdSetIds, d \in Budgets, l \in Budgets}
      \cup {[handler |-> "create_meta_campaign", name |-> "campaign"]}
      \cup {[handler |-> "create_automated_rule", name |-> "rule"]}
      \cup {[handler |-> "get_automated_rules"]}
      \cup {[handler |-> "delete_automated_rule", rule_id |-> r] : r \in RuleIds}
      \cup {[handler |-> "update_automated_rule_status", rule_id |-> r, status |-> s] :
              r \in RuleIds, s \in RuleStatuses}

\* What a handler returns between its connection test and its client call:
\* an error envelope, or nothing yet.
update_adset_budget_validate(req) ==
    IF req.daily_budget = JNull /\ req.lifetime_budget = JNull
    THEN [status |-> "error",
          message |-> <<"At least one budget type (daily_budget or lifetime_budget) is required">>]
    ELSE [status |-> "none"]

update_automated_rule_status_validate(req) ==
    IF req.status \notin {"ENABLED", "DISABLED"}
    THEN [status |-> "error", message |-> <<"Status must be ENABLED or DISABLED">>]
    ELSE [status |-> "none"]

Validate(req) ==
    CASE req.handler = "update_adset_budget" -> update_adset_budget_validate(req)
      [] req.handler = "update_automated_rule_status" ->
           update_automated_rule_status_validate(req)
      [] OTHER -> [status |-> "none"]

\* The except clause of update_adset_budget.
update_adset_budget_error(adset_id, e) ==
    LET plain == [error_message |-> StrExc(e), error_details |-> StrExc(e)]
        extracted ==
          IF e.exc # "HTTPError"
          THEN plain
          ELSE CASE e.body.t = "text" ->
                      [error_message |-> StrExc(e), error_details |-> <<"response.text">>]
                 [] e.body.t = "json" -> plain
                 [] e.body.t = "json_error_str" ->
                      [error_message |-> StrExc(e), error_details |-> <<"response.text">>]
                 [] e.body.t = "json_error" ->
                      LET info == e.body.error IN
                      [error_message |-> Get(info, "message", StrExc(e)),
                       error_details |->
                          <<"Meta API Error ">> \o Get(info, "code", <<>>)
                            \o <<": ">> \o Get(info, "message", <<>>)
                            \o (IF "error_subcode" \in DOMAIN info
                                THEN <<" (Subcode: ", info["error_subcode"], ")">>
                                ELSE <<>>)]
    IN [status |-> "error",
        message |-> <<"Failed to update ad set ", adset_id, " budget: ">>
                      \o extracted.error_message,
        error_details |-> extracted.error_details]

\* The except clause of each handler.
ErrorEnvelope(req, e) ==
    CASE req.handler = "get_hierarchical_campaigns" ->
           [status |-> "error",
            message |-> <<"Failed to get hierarchical campaigns: ">> \o StrExc(e)]
      [] req.handler = "get_campaign_adsets" ->
           [status |-> "error",
            message |-> <<"Failed to get ad sets for campaign ", req.campaign_id, ": ">>
                          \o StrExc(e),
            error_details |-> StrExc(e)]
      [] req.handler = "get_adset_ads" ->
           [status |-> "error",
            message |-> <<"Failed to get ads for ad set ", req.adset_id, ": ">>
                          \o StrExc(e),
            error_details |-> StrExc(e)]
      [] req.handler = "update_adset_status" ->
           update_adset_status_error(req.adset_id, e)
      [] req.handler = "update_adset_budget" ->
           update_adset_budget_error(req.adset_id, e)
      [] req.handler = "create_meta_campaign" ->
           [status |-> "error",
            message |-> <<"Failed to create campaign: ">> \o StrExc(e)]
      [] req.handler = "create_automated_rule" ->
           [status |-> "error",
            message |-> <<"Failed to create automated rule: ">> \o StrExc(e),
            error_details |-> StrExc(e)]
      [] req.handler = "get_automated_rules" ->
           [status |-> "error",
            message |-> <<"Failed to get automated rules: ">> \o StrExc(e)]
      [] req.handler = "delete_automated_rule" ->
           [status |-> "error",
            message |-> <<"Failed to delete automated rule: ">> \o StrExc(e)]
      [] req.handler = "update_automated_rule_status" ->
           [status |-> "error",
            message |-> <<"Failed to update automated rule status: ">> \o StrExc(e)]

\* What each handler returns when its client call has returned.
SuccessEnvelope(req) ==
    CASE req.handler = "get_hierarchical_campaigns" ->
           [status |-> "success", data |-> "result"]
      [] req.handler = "get_campaign_adsets" ->
           [status |-> "success",
            message |-> <<"Ad sets for campaign ", req.campaign_id>>,
            campaign_id |-> req.campaign_id, ad_sets |-> "result"]
      [] req.handler = "get_adset_ads" ->
           [status |-> "success",
            message |-> <<"Ads for ad set ", req.adset_id>>,
            adset_id |-> req.adset_id, ads |-> "result"]
      [] req.handler = "update_adset_budget" ->
           [status |-> "success",
            message |-> <<"Ad set ", req.adset_id, " budget updated successfully">>,
            adset_id |-> req.adset_id,
            daily_budget |-> req.daily_budget,
            lifetime_budget |-> req.lifetime_budget,
            data |-> "result"]
      [] req.handler = "create_meta_campaign" ->
           [status |-> "success", data |-> "result"]
      [] req.handler = "create_automated_rule" ->
           [status |-> "success",
            message |-> <<"Automated rule '", req.name, "' created successfully">>,
            data |-> "result"]
      [] req.handler = "get_automated_rules" ->
           [status |-> "success", rules |-> "result"]
      [] req.handler = "delete_automated_rule" ->
           [status |-> "success",
            message |-> <<"Automated rule ", req.rule_id, " deleted successfully">>,
            data |-> "result"]
      [] req.handler = "update_automated_rule_status" ->
           [status |-> "success",
            message |-> <<"Automated rule ", req.rule_id, " status updated to ", req.status>>,
            data |-> "result"]

\* A request for one of these handlers arrives and is parsed.  The handlers
\* without a connection test go straight to their client call.
HandlerRequest ==
    /\ fn = "handlers"
    /\ pc = "idle"
    /\ \E req \in Requests :
          /\ request' = req
          /\ pc' = IF req.handler \in TestsConnection
                   THEN "test_connection" ELSE "client_call"
    /\ UNCHANGED <<fn, limit, campaigns, ci, si, ret, http>>
    /\ UNCHANGED mainVars

\* The handler from its first line: test_connection, then the checks of
\* the input.
HandlerTestConnection ==
    /\ fn = "handlers"
    /\ request.handler \in TestsConnection \ {"update_adset_status"}
    /\ pc = "test_connection"
    /\ \E connected \in BOOLEAN :
          /\ http' = Append(http, [call |-> "get_ad_account_info", ok |-> connected])
          /\ IF ~connected
             THEN /\ ret' = [status |-> "error",
                             message |-> <<"Meta API connection failed">>]
                  /\ pc' = "returned"
             ELSE LET v == Validate(request) IN
                  IF v.status = "error"
                  THEN /\ ret' = v
                       /\ pc' = "returned"
                  ELSE /\ ret' = ret
                       /\ pc' = "client_call"
    /\ UNCHANGED <<fn, limit, campaigns, ci, si>>
    /\ UNCHANGED mainVars
    /\ UNCHANGED request

\* The handler from its client call to its return.
HandlerClientCall ==
    /\ fn = "handlers"
    /\ request.handler \in Handlers \ {"update_adset_status"}
    /\ pc = "client_call"
    /\ \E resp \in UpdateResponses :
          /\ http' = Append(http, [call |-> ClientCall(request.handler),
                                   ok |-> (resp.ok \/ resp.exc = "JSONDecodeError"),
                                   resp |-> resp])
          /\ ret' = IF resp.ok
                    THEN SuccessEnvelope(request)
                    ELSE ErrorEnvelope(request, resp)
    /\ pc' = "returned"
    /\ UNCHANGED <<fn, limit, campaigns, ci, si>>
    /\ UNCHANGED mainVars
    /\ UNCHANGED request

NextHandlers ==
    \/ UpdateAdsetStatusRequest
    \/ UpdateAdsetStatusTestConnection
    \/ UpdateAdsetStatusPost
    \/ HandlerRequest
    \/ HandlerTestConnection
    \/ HandlerClientCall

SpecHandlers == InitHandlers /\ [][NextHandlers]_vars

-----------------------------------------------------------------------------
(* What a finished call shows: its result against its request log.         *)

\* The ids of the records the platform served, in request order.
AllIds(log) == Concat([i \in 1..Len(log) |-> log[i].ids])

Last(log) == log[Len(log)]

\* The log is that of one paginated walk made for the caller: the pages of
\* get_ad_sets, or the campaign pages of get_campaigns_detailed's nested
\* request with no fallback fetch after them.
WalkLog ==
    /\ fn \in {"get_ad_sets", "get_campaigns_detailed"}
    /\ http # <<>>
    /\ \A i \in 1..Len(http) :
          http[i].edge = IF fn = "get_ad_sets" THEN "adsets" ELSE "nested"

\* Every page was fetched, and its records normalised, without an exception.
NoFetchFailure == \A i \in 1..Len(http) : http[i].ok /\ http[i].wf

\* The walk asked for pages 1, 2, ... in order, each once, and the last page
\* it got carries no next link: it made as many requests as the chain has
\* pages; and the call returned the records of all of them in page order.
WholeChainReturned ==
    /\ \A i \in 1..Len(http) : http[i].page = i
    /\ Last(http).next = "none"
    /\ pc = "returned"
    /\ Ids(ret) = AllIds(http)

C3CapStopsWalk ==
    \A k \in 2..Len(http) :
       (fn = "get_ad_comments" \/ WalkLog)
       => Len(AllIds(SubSeq(http, 1, k - 1))) < limit

-----------------------------------------------------------------------------
(* The result of get_campaigns_detailed against its request log.           *)

Result == fn = "get_campaigns_detailed" /\ pc = "returned"

\* A fetch of the fallback path was made.
FallbackRan == \E i \in 1..Len(http) : http[i].edge # "nested"

FallbackResult == Result /\ FallbackRan

\* The children of a node under key, when that key holds a list.
Children(node, key) ==
    IF HasKey(node, key) /\ IsList(node[key]) THEN node[key].v ELSE <<>>

HasMetrics(node) ==
    HasKey(node, "performance_metrics") /\ IsDict(node.performance_metrics)

HasSequence(node, key) == HasKey(node, key) /\ IsList(node[key])

\* The ids served, in order, to the requests made on edge for parent id.
FetchedIds(edge, id) ==
    AllIds(SelectSeq(http, LAMBDA e : e.edge = edge /\ e.of = id))

\* The first request made on edge for parent id failed.
FetchFailed(edge, id) ==
    \E i \in 1..Len(http) :
       http[i].edge = edge /\ http[i].of = id /\ http[i].page = 1 /\ ~http[i].ok

\* C4, as stated: in every result of get_campaigns_detailed, primary or
\* fallback, every campaign, ad set and ad has a performance_metrics key
\* holding a record.
C4MetricsEverywhere ==
    Result =>
      \A c \in 1..Len(ret) :
         /\ HasMetrics(ret[c])
         /\ \A a \in 1..Len(Children(ret[c], "ad_sets")) :
               LET ad_set == Children(ret[c], "ad_sets")[a] IN
               /\ HasMetrics(ad_set)
               /\ \A d \in 1..Len(Children(ad_set, "ads")) :
                     HasMetrics(Children(ad_set, "ads")[d])

\* C5, as stated: in every result of get_campaigns_detailed every campaign
\* has an ad_sets key holding a sequence and every ad set an ads key holding
\* a sequence, whatever the shape of the platform's nested field and whatever
\* child fetch failed in the fallback.
C5ContainersAreSequences ==
    Result =>
      \A c \in 1..Len(ret) :
         /\ HasSequence(ret[c], "ad_sets")
         /\ \A a \in 1..Len(Children(ret[c], "ad_sets")) :
               HasSequence(Children(ret[c], "ad_sets")[a], "ads")

\* C6: in the fallback, a failed ad-set fetch does not abort the assembly
\* (the call raises only when the campaign fetch failed, and every campaign
\* fetched is in the result); the campaigns whose ad-set fetch failed have
\* ad_sets = [], and every other campaign has the ad sets its own fetch
\* returned.
C6AdSetFailureIsLocal ==
    /\ (fn = "get_campaigns_detailed" /\ pc = "raised")
          => Last(http).edge = "campaigns"
    /\ FallbackResult =>
         /\ Ids(ret) = FetchedIds("campaigns", <<>>)
         /\ \A c \in 1..Len(ret) :
               /\ HasSequence(ret[c], "ad_sets")
               /\ IF FetchFailed("adsets", ret[c].id)
                  THEN ret[c].ad_sets.v = <<>>
                  ELSE Ids(ret[c].ad_sets.v) = FetchedIds("adsets", ret[c].id)

\* The fallback returned two campaigns or more: the ad-set fetch failed for
\* one, and another holds the ad sets its fetch returned.
C6Witness ==
    /\ FallbackResult
    /\ \E c1, c2 \in 1..Len(ret) :
          /\ FetchFailed("adsets", ret[c1].id)
          /\ ~FetchFailed("adsets", ret[c2].id)
          /\ Children(ret[c2], "ad_sets") # <<>>

\* C7: in the fallback, an ad set whose ad fetch failed has ads = [], the
\* campaign keeps the full list of ad sets its fetch returned, and every
\* other ad set, of this and of every other campaign, has the ads its own
\* fetch returned.
C7AdFailureIsLocal ==
    FallbackResult =>
      \A c \in 1..Len(ret) :
         /\ FetchFailed("adsets", ret[c].id)
            \/ Ids(Children(ret[c], "ad_sets")) = FetchedIds("adsets", ret[c].id)
         /\ \A a \in 1..Len(Children(ret[c], "ad_sets")) :
               LET ad_set == Children(ret[c], "ad_sets")[a] IN
               /\ HasSequence(ad_set, "ads")
               /\ IF FetchFailed("ads", ad_set.id)
                  THEN ad_set.ads.v = <<>>
                  ELSE Ids(ad_set.ads.v) = FetchedIds("ads", ad_set.id)

\* The fallback returned a campaign with two ad sets or more: the ad fetch
\* failed for one, and another holds the ads its fetch returned.
C7Witness ==
    /\ FallbackResult
    /\ \E c \in 1..Len(ret) :
          \E a1, a2 \in 1..Len(Children(ret[c], "ad_sets")) :
             LET ad_sets == Children(ret[c], "ad_sets") IN
             /\ FetchFailed("ads", ad_sets[a1].id)
             /\ ~FetchFailed("ads", ad_sets[a2].id)
             /\ Children(ad_sets[a2], "ads") # <<>>

\* The fallback path was entered.
FallbackEntered == pc = "fallback" \/ FallbackRan

\* The records of every page the nested request got normalise without
\* raising.
BodyNormalises ==
    \A i \in 1..Len(http) : http[i].edge = "nested" => http[i].wf

\* The result is built from the body of the nested request alone.
BuiltFromBody ==
    /\ pc = "returned"
    /\ ~FallbackRan
    /\ Ids(ret) = AllIds(http)

C9FallbackFollowsLinks ==
    FallbackResult =>
      \A i \in 1..Len(http) :
         (http[i].edge # "nested" /\ http[i].ok /\ http[i].next # "none")
         => \E j \in 1..Len(http) :
               /\ http[j].edge = http[i].edge
               /\ http[j].of = http[i].of
               /\ http[j].page = http[i].page + 1

-----------------------------------------------------------------------------
(* The normalised node against the node as served.                         *)

\* The list the claim speaks of, when the insights x is a mapping with a data
\* list of length >= 1 or is itself a list of length >= 1; else the empty
\* sequence.
NonEmptyList(x) ==
    IF x.t = "dict" /\ "data" \in DOMAIN x
    THEN IF x.data.t = "list" THEN x.data.v ELSE <<>>
    ELSE IF x.t = "list" THEN x.v ELSE <<>>

FirstKept(served, normalised) ==
    (HasKey(served, "insights") /\ NonEmptyList(served.insights) # <<>>)
    => /\ HasKey(normalised, "performance_metrics")
       /\ normalised.performance_metrics = NonEmptyList(served.insights)[1]

\* C10: for every node whose insights is a mapping with a data list of
\* length >= 1, or is itself a list of length >= 1, normalisation sets
\* performance_metrics to the first element of that list, whatever the
\* elements after it: for the records get_ad_sets normalises, and for the
\* campaign, the ad set and the ad get_campaigns_detailed normalises.
C10FirstElementKept ==
    (fn \in {"normalize_flat", "normalize_tree"} /\ pc = "returned") =>
       \A i \in 1..Len(ret) :
          /\ FirstKept(campaigns[i], ret[i])
          /\ fn = "normalize_tree" =>
                LET ad_set_in == campaigns[i].adsets.data.v[1]
                    ad_set == ret[i].ad_sets.v[1]
                IN  /\ FirstKept(ad_set_in, ad_set)
                    /\ FirstKept(ad_set_in.ads.v[1], ad_set.ads.v[1])

\* A tree was normalised whose campaign carried insights {"data": [X, Y]},
\* whose ad set carried the list [Y, X] and whose ad carried {"data": [Y]}.
C10Witness ==
    /\ fn = "normalize_tree"
    /\ pc = "returned"
    /\ campaigns = <<Tree([t |-> "dict", data |-> JList(<<MetricsX, MetricsY>>)],
                          JList(<<MetricsY, MetricsX>>),
                          [t |-> "dict", data |-> JList(<<MetricsY>>)])>>
    /\ ret[1].performance_metrics = MetricsX

\* The node carries no usable metrics: no insights key, or insights that is
\* neither a mapping with a non-empty data list nor a non-empty list.
Unusable(node) ==
    ~HasKey(node, "insights") \/ NonEmptyList(node.insights) = <<>>

EmptyMetrics(node) ==
    HasKey(node, "performance_metrics") /\ node.performance_metrics = EmptyDict

\* C11, as stated: for every node with no usable metrics (insights absent,
\* [], {"data": []}, or of any other shape without a data list),
\* normalisation does not raise and sets performance_metrics = {}: for the
\* records get_ad_sets normalises, and for a tree of get_campaigns_detailed
\* whose campaign, ad set and ad all carry no usable metrics.
C11UnusableGivesEmpty ==
    (fn \in {"normalize_flat", "normalize_tree"} /\ pc \in {"returned", "raised"}) =>
       \A i \in 1..Len(campaigns) :
          LET ad_set_in == campaigns[i].adsets.data.v[1] IN
          /\ (fn = "normalize_flat" /\ Unusable(campaigns[i]))
                => (pc = "returned" /\ EmptyMetrics(ret[i]))
          /\ ( /\ fn = "normalize_tree"
               /\ Unusable(campaigns[i])
               /\ Unusable(ad_set_in)
               /\ Unusable(ad_set_in.ads.v[1]) )
                => /\ pc = "returned"
                   /\ EmptyMetrics(ret[i])
                   /\ EmptyMetrics(ret[i].ad_sets.v[1])
                   /\ EmptyMetrics(ret[i].ad_sets.v[1].ads.v[1])

\* C12, as stated: normalisation is idempotent: run on the nodes it has
\* normalised it changes nothing; in particular a node with
\* performance_metrics present and insights absent keeps its
\* performance_metrics.
C12Idempotent ==
    (fn \in {"normalize_flat", "normalize_tree"} /\ pc = "twice") => ret = campaigns

-----------------------------------------------------------------------------
(* The pull loops, the heartbeat and the credentials of the agent.         *)

RECURSIVE Pow2(_)
Pow2(k) == IF k = 0 THEN 1 ELSE 2 * Pow2(k - 1)

Failed == {"non_success", "exception"}

\* Loop l has just finished a pull and is about to sleep backoff[l].
Sleeping(l) == process = "running" /\ task[l] = "sleep"

\* C13: in the config-pull loop, after k consecutive failed pulls (an
\* exception or a non-success response), counted from the start or from the
\* last success, the delay before the next pull is min(5 * 2^k, 300); 40
\* after 3.
C13BackoffAfterFailures ==
    (process = "running" /\ fn = "agent") =>
       backoff["config"] = Min(5 * Pow2(fails), 300)

\* The config-pull loop sleeps 40 seconds after three consecutive failures.
C13Witness ==
    /\ Sleeping("config")
    /\ fn = "agent"
    /\ fails = 3
    /\ last_resp["config"] \in Failed
    /\ backoff["config"] = 40

\* C14: in every reachable state of the two pull loops the backoff is
\* between 5 and 300 inclusive, and once it is 300 a failed pull leaves it at
\* exactly 300.
C14BackoffBounds ==
    /\ [](process = "running" =>
             \A l \in PullLoops : backoff[l] >= 5 /\ backoff[l] <= 300)
    /\ [][\A l \in PullLoops :
             ( /\ process = "running"
               /\ backoff[l] = 300
               /\ task[l] = "work" /\ task'[l] = "sleep"
               /\ last_resp'[l] \in Failed )
             => backoff'[l] = 300]_vars

\* Both loops have reached 300 and failed again.
C14Witness ==
    /\ fn = "agent"
    /\ Sleeping("config") /\ Sleeping("commands")
    /\ fails = MaxFails
    /\ backoff["config"] = 300
    /\ backoff["commands"] = 300
    /\ last_resp["commands"] \in Failed

\* C15: in the config-pull loop the delay slept right after a successful
\* response is 5 seconds, whatever the failures before it: a pull that gets
\* a success response leaves the backoff at 5.
C15SuccessResets ==
    [][( /\ process = "running"
         /\ task["config"] = "work" /\ task'["config"] = "sleep"
         /\ last_resp'["config"] \in {"success", "success_bad_body"} )
       => backoff'["config"] = 5]_vars

\* The config-pull loop sleeps 5 seconds after a success, while the
\* command-pull loop, which failed throughout, is at 300.
C15Witness ==
    /\ fn = "agent"
    /\ Sleeping("config")
    /\ last_resp["config"] = "success"
    /\ backoff["config"] = 5
    /\ backoff["commands"] = 300

C17HeartbeatStops ==
    /\ [](last_resp["heartbeat"] = "reload_failed" => task["heartbeat"] = "stopped")
    /\ [][task["heartbeat"] = "stopped"
            => /\ task'["heartbeat"] = "stopped"
               /\ last_resp'["heartbeat"] = last_resp["heartbeat"]]_vars

\* The heartbeat has stopped on a failed reload, after which the other loops
\* have gone on.
C17Witness ==
    /\ fn = "agent"
    /\ process = "running"
    /\ task["heartbeat"] = "stopped"
    /\ last_resp["heartbeat"] = "reload_failed"
    /\ fails = 2
    /\ task["sync"] = "sleep"

\* C18: whatever happens in a task (an exception, a non-success response,
\* the heartbeat stopping on a credential failure), the config-pull, the
\* command-pull and the data-sync loops keep iterating forever: unless the
\* process ended at startup with no task created, each of the three again
\* and again goes through an iteration to its sleep.
C18LoopsNeverStop ==
    \/ <>(process = "exited" /\ \A t \in Tasks : task[t] = "idle")
    \/ \A t \in {"config", "commands", "sync"} :
          []<><<task[t] = "work" /\ task'[t] = "sleep">>_vars

\* The heartbeat has stopped, the last config pull raised and the last
\* command pull got a non-success response, and the three loops are running.
C18Witness ==
    /\ fn = "agent"
    /\ process = "running"
    /\ task["heartbeat"] = "stopped"
    /\ last_resp["config"] = "exception"
    /\ last_resp["commands"] = "non_success"
    /\ task["config"] = "sleep"
    /\ task["commands"] = "sleep"
    /\ task["sync"] = "work"

\* One load of a complete configuration gives this pair.
OneLoad(id, token) ==
    \E c \in Configs :
       /\ "agent" \in DOMAIN c
       /\ DOMAIN c.agent = {"id", "token"}
       /\ c.agent.id = id
       /\ c.agent.token = token

\* C19, as stated: wherever another task can run, current_agent_id and
\* current_agent_token come from one single config load, whatever the
\* outcome of the reloads.
C19ConsistentPair ==
    (process = "running" /\ fn = "agent") =>
       OneLoad(current_agent_id, current_agent_token)

-----------------------------------------------------------------------------
(* The inbound surface.                                                    *)

\* The text has this piece.
Contains(text, piece) == \E i \in 1..Len(text) : text[i] = piece

Answered(handler) ==
    fn = "handlers" /\ pc = "returned" /\ request.handler = handler

\* C20, as stated: an ad-set status update whose status is outside ACTIVE,
\* PAUSED, ARCHIVED (a non-empty one such as "DELETED") is answered without
\* any network call having been made, by an error envelope whose message
\* contains "Invalid status".
C20InvalidStatusRejected ==
    ( /\ Answered("update_adset_status")
      /\ request.status # ""
      /\ request.status \notin ValidStatuses )
    => /\ http = <<>>
       /\ ret.status = "error"
       /\ Contains(ret.message, "Invalid status")

\* C21, as stated: an ad-set budget update in which daily_budget and
\* lifetime_budget are both null is answered by an error envelope without
\* any network call having been made.
C21NullBudgetsRejected ==
    ( /\ Answered("update_adset_budget")
      /\ request.daily_budget = JNull
      /\ request.lifetime_budget = JNull )
    => /\ http = <<>>
       /\ ret.status = "error"

\* C22, as stated: whatever the handler, the first upstream call made for a
\* request is the connectivity check.
C22ConnectionCheckFirst ==
    (fn = "handlers" /\ request.handler \in Handlers /\ http # <<>>)
    => http[1].call = "get_ad_account_info"

\* The handler has returned after its client call raised.
Raised ==
    /\ fn = "handlers" /\ pc = "returned"
    /\ request.handler \in Handlers
    /\ http # <<>>
    /\ Last(http).call = ClientCall(request.handler)
    /\ ~Last(http).resp.ok

\* C23, as stated: when an exception is raised while a request is handled,
\* the handler returns an envelope with status "error" that has both a
\* message and an error_details field.
C23UniformErrorEnvelope ==
    Raised => /\ ret.status = "error"
              /\ "message" \in DOMAIN ret
              /\ "error_details" \in DOMAIN ret

Mutations ==
    {"update_adset_status", "update_adset_budget", "create_automated_rule",
     "update_automated_rule_status", "delete_automated_rule"}

\* "Meta API Error <code>: <message>", with " (Subcode: <n>)" when the error
\* object has a subcode.
MetaApiErrorText(info) ==
    <<"Meta API Error ">> \o Get(info, "code", <<>>) \o <<": ">>
      \o Get(info, "message", <<>>)
      \o (IF "error_subcode" \in DOMAIN info
          THEN <<" (Subcode: ", info["error_subcode"], ")">>
          ELSE <<>>)

\* The envelope carries this text, as its error_details or at the end of
\* its message.
Surfaces(envelope, text) ==
    \/ "error_details" \in DOMAIN envelope /\ envelope.error_details = text
    \/ /\ Len(envelope.message) >= Len(text)
       /\ SubSeq(envelope.message, Len(envelope.message) - Len(text) + 1,
                 Len(envelope.message)) = text

\* C24, as stated: for every mutation call, a non-success answer of the
\* platform whose body has an error object is surfaced as "Meta API Error
\* <code>: <message>", with the subcode appended exactly when there is one;
\* a non-success answer without an error object is surfaced as the response
\* text or as the text of the HTTP exception.
C24ErrorNormalised ==
    ( /\ Raised
      /\ request.handler \in Mutations
      /\ Last(http).resp.exc = "HTTPError" )
    => LET e == Last(http).resp IN
       IF e.body.t = "json_error"
       THEN Surfaces(ret, MetaApiErrorText(e.body.error))
       ELSE Surfaces(ret, <<"response.text">>) \/ Surfaces(ret, StrExc(e))

-----------------------------------------------------------------------------
(* The agent's requests to the CRM.                                        *)

\* This step of task t sends a request to the CRM.
Posts(t) == iteration'[t].posts > iteration[t].posts

\* This step is a reload_config of the heartbeat that returns False.
ReloadFails ==
    /\ process = "running"
    /\ task["heartbeat"] = "work"
    /\ task'["heartbeat"] = "stopped"

\* C25: when the credentials fail the validation of on_startup the process
\* ends, for good, and none of the four tasks was started: no task has left
\* its idle state and none has sent a request.
C25StartupFailureStartsNothing ==
    /\ [](process = "exited" =>
             \A t \in Tasks : task[t] = "idle" /\ iteration[t].posts = 0)
    /\ [][process = "exited" => process' = "exited"]_vars

\* The process has ended at startup on a configuration with an empty token.
C25Witness ==
    /\ fn = "agent"
    /\ process = "exited"
    /\ current_agent_id = "agt_B"
    /\ current_agent_token = ""

\* C26: the heartbeat, config-pull and command-pull loops send at most one
\* request per iteration, and a request is sent only by an iteration that
\* starts after the task's sleep has returned and has sent nothing yet: a
\* failed request is never followed by another before the sleep.
C26OneRequestPerIteration ==
    /\ [](\A t \in {"heartbeat", "config", "commands"} : iteration[t].posts <= 1)
    /\ [][\A t \in {"heartbeat", "config", "commands"} :
             Posts(t) => /\ task[t] = "work"
                         /\ iteration[t].posts = 0
                         /\ task'[t] = "sleep"
                         /\ iteration'[t].sleep > 0]_vars

\* A config pull has raised twice in a row; the loop has sent one request
\* in this iteration and sleeps 20 seconds.
C26Witness ==
    /\ fn = "agent"
    /\ Sleeping("config")
    /\ last_resp["config"] = "exception"
    /\ fails = 2
    /\ iteration["config"] = Iteration(1, AGENT_ID, 20)

\* C27: a heartbeat post that raises neither stops the heartbeat task nor
\* changes its interval: the task sleeps 30 seconds, as after any post, and
\* then starts its next iteration.
C27HeartbeatFixedInterval ==
    /\ [](last_resp["heartbeat"] = "exception" =>
             task["heartbeat"] = "sleep")
    /\ [](Sleeping("heartbeat") => iteration["heartbeat"].sleep = HeartbeatInterval)
    /\ [][Sleeping("heartbeat") => task'["heartbeat"] \in {"sleep", "work"}]_vars
    /\ (last_resp["heartbeat"] = "exception") ~> (task["heartbeat"] = "work")

\* The heartbeat post has raised and the task sleeps 30 seconds, while the
\* config-pull loop has backed off.
C27Witness ==
    /\ fn = "agent"
    /\ Sleeping("heartbeat")
    /\ last_resp["heartbeat"] = "exception"
    /\ iteration["heartbeat"] = Iteration(1, current_agent_id, 30)
    /\ backoff["config"] = 40

\* C28, as stated: a reload_config that returns False (here the one of a
\* heartbeat iteration, after which the other tasks go on) leaves
\* current_agent_id and current_agent_token as they were.
C28FailedReloadKeepsCredentials ==
    [][ReloadFails =>
         /\ current_agent_id' = current_agent_id
         /\ current_agent_token' = current_agent_token]_vars

\* C29, as stated: every request of the config-pull, command-pull and
\* data-sync tasks is addressed to the agent id that current_agent_id holds
\* when it is sent.
C29RequestsUseCurrentId ==
    [][\A t \in {"config", "commands", "sync"} :
          Posts(t) => iteration'[t].id = current_agent_id]_vars

\* C30: an iteration of the data-sync loop posts to the CRM exactly when
\* the connection test passed and the account info and the campaigns were
\* both fetched; in every case it sends at most one request and then
\* sleeps 300 seconds.
C30SyncPostsOnlyWhenFetched ==
    Sleeping("sync") =>
       /\ iteration["sync"].posts = (IF last_resp["sync"] \in SyncFailures THEN 0 ELSE 1)
       /\ last_resp["sync"] \in SyncFailures \cup {"posted"}
       /\ iteration["sync"].sleep = SyncInterval

\* The campaign fetch has raised: nothing was posted and the loop sleeps
\* 300 seconds.
C30Witness ==
    /\ fn = "agent"
    /\ Sleeping("sync")
    /\ last_resp["sync"] = "campaigns_raised"
    /\ iteration["sync"] = Iteration(0, "", SyncInterval)

====
